---- MODULE Spec2Model ----
(***************************************************************************)
(* Model of src/main.py (QR keychain generator): the batch loop of main(), *)
(* the output-directory handling, and the bounding geometry produced by    *)
(* qr_code_to_3d_model, add_text, create_keychain_body and                 *)
(* assemble_colored_components.                                            *)
(*                                                                         *)
(* Lengths are integers counted in units of 0.00001 mm (the epsilon of     *)
(* main.py:175), so that every length of the program is exact.  A solid is *)
(* modelled by its axis-aligned bounding box.                              *)
(***************************************************************************)
EXTENDS Integers, Sequences, FiniteSets

VARIABLES
    args,                  \* the parsed Args (main.py:136)
    glyph_width,           \* width of the rendered text, given by the font renderer
    dir,                   \* entries of args.output_dir
    dir_before,            \* entries of args.output_dir when main() is entered
    pc,                    \* position in main()
    err,                   \* exception that ended the run, "none" if none
    i,                     \* loop variable of main.py:147
    num_per_row,
    num_per_column,
    tokens_per_plate,
    current_plate_index,
    build_plate_body,      \* accumulator: set of positioned tag bodies
    build_plate_colored,   \* accumulator: set of positioned tag overlays
    body,                  \* geometry of the last composed tag body
    colored,               \* geometry of the last composed overlay
    exported               \* sequence of save_as_stl calls made so far

vars == <<args, glyph_width, dir, dir_before, pc, err, i, num_per_row, num_per_column,
          tokens_per_plate, current_plate_index, build_plate_body,
          build_plate_colored, body, colored, exported>>

---------------------------------------------------------------------------
(* Units and bounds *)

Unit == 100000

MaxTags == 13

Half == Unit \div 2

\* Args defaults of the build plate; parse_args defines no option for them.
build_plate_width == 254 * Unit
build_plate_height == 254 * Unit
build_plate_spacing == 1 * Unit

Min(a, b) == IF a <= b THEN a ELSE b

\* math.floor of a length in mm, back in units
floor(x) == (x \div Unit) * Unit

\* int(a / b) for positive a, b
IntQuot(a, b) == a \div b

---------------------------------------------------------------------------
(* Solids as bounding boxes, and the solid2 transformations used *)

Box(x0, x1, y0, y1, z0, z1) ==
    [x0 |-> x0, x1 |-> x1, y0 |-> y0, y1 |-> y1, z0 |-> z0, z1 |-> z1]

cube(w, h, d) == Box(0, w, 0, h, 0, d)

cylinder(r, h) == Box(-r, r, -r, r, 0, h)

translate(s, dx, dy, dz) ==
    Box(s.x0 + dx, s.x1 + dx, s.y0 + dy, s.y1 + dy, s.z0 + dz, s.z1 + dz)

right(s, d) == translate(s, d, 0, 0)

left(s, d) == translate(s, -d, 0, 0)

forward(s, d) == translate(s, 0, d, 0)

back(s, d) == translate(s, 0, -d, 0)

up(s, d) == translate(s, 0, 0, d)

mirrorX(s) == Box(-s.x1, -s.x0, s.y0, s.y1, s.z0, s.z1)

NoSolid == [none |-> TRUE]

---------------------------------------------------------------------------
(* Builders *)

\* The union of the pixel cubes spans num_cells * pixel_size = qr_width.
qr_code_to_3d_model(qr_width, depth) == cube(qr_width, qr_width, depth)

\* text(halign="center", valign="top") extruded by depth
add_text(width, size, depth) == Box(-(width \div 2), width \div 2, -size, 0, 0, depth)

keychain_hole(width, height, depth, hole_radius, hole_offset) ==
    back(
        forward(right(cylinder(hole_radius, depth + 2 * Unit),
                      width - hole_offset - hole_radius),
                height - hole_offset - (hole_radius * 2)),
        -Unit)

create_keychain_body(width, height, depth, radius, hole_radius, hole_offset) ==
    LET main_core == forward(right(cube(width - 2 * radius, height - 2 * radius, depth),
                                   radius), radius)
        corner_cylinder == cylinder(radius, depth)
        corners == << forward(right(corner_cylinder, radius), radius),
                      forward(right(corner_cylinder, width - radius), radius),
                      forward(right(corner_cylinder, width - radius), height - radius),
                      forward(right(corner_cylinder, radius), height - radius) >>
    IN  [ core |-> main_core,
          corners |-> corners,
          hole |-> keychain_hole(width, height, depth, hole_radius, hole_offset),
          width |-> width, height |-> height, depth |-> depth,
          radius |-> radius, hole_radius |-> hole_radius,
          hole_offset |-> hole_offset ]

FrontQr(qr_model, a) ==
    up(forward(right(qr_model, a.qr_border), a.qr_border),
       a.token_depth - a.colored_print_depth)

FrontText(text_model, a, text_offset) ==
    up(forward(right(text_model, text_offset), a.token_height - a.text_border),
       a.token_depth - a.colored_print_depth)

BackQrNotShifted(qr_model, a) ==
    mirrorX(forward(left(qr_model, a.qr_border), a.qr_border))

BackQr(qr_model, a) ==
    mirrorX(forward(left(qr_model, a.token_width - a.qr_border), a.qr_border))

BackText(text_model, a, text_offset) ==
    mirrorX(forward(left(text_model, text_offset), a.token_height - a.text_border))

assemble_colored_components(qr_model, text_model, a, text_offset) ==
    [ front_qr |-> FrontQr(qr_model, a),
      front_text |-> FrontText(text_model, a, text_offset),
      back_qr |-> BackQr(qr_model, a),
      back_text |-> BackText(text_model, a, text_offset),
      text_offset |-> text_offset ]

---------------------------------------------------------------------------
(* Inputs: the command line, the font renderer and the output directory *)

DefaultArgs ==
    [ start_index |-> 1, end_index |-> 1,
      token_width |-> 50 * Unit, token_height |-> 60 * Unit,
      token_depth |-> 3 * Unit, token_corner_radius |-> 4 * Unit,
      qr_border |-> 3 * Unit, colored_print_depth |-> (6 * Unit) \div 10,
      text_size |-> 7 * Unit, text_border |-> 3 * Unit,
      hole_radius |-> 3 * Unit, hole_offset |-> 3 * Unit ]

Entry(base, n, ext, old) == [base |-> base, n |-> n, ext |-> ext, old |-> old]

\* What a previous run or the user may have left in the output directory.
OldEntries ==
    { Entry("build_plate_body", 1, "stl", TRUE),
      Entry("build_plate_colored", 9, "stl", TRUE),
      Entry("notes", 0, "txt", TRUE),
      Entry("archive", 0, "dir", TRUE) }

Input(a, g, d) == [args |-> a, glyph_width |-> g, dir |-> d]

\* Index ranges and token sizes that exercise the plate layout.
BatchInputs ==
    { Input([DefaultArgs EXCEPT !.token_width = w, !.token_height = h,
                                !.start_index = s, !.end_index = e],
            20 * Unit, d) :
        w \in {50 * Unit, 70 * Unit, 126 * Unit, 253 * Unit, 300 * Unit},
        h \in {60 * Unit, 100 * Unit, 253 * Unit, 300 * Unit},
        s \in {1, 3},
        e \in 0 .. (MaxTags + 2),
        d \in {{}, {Entry("build_plate_body", 1, "stl", TRUE)}} }

BatchRanges == { x \in BatchInputs :
                   /\ x.args.end_index >= x.args.start_index - 2
                   /\ x.args.end_index - x.args.start_index + 1 <= MaxTags }

HoleParams ==
    { <<3 * Unit, 3 * Unit>>, <<1 * Unit, 2 * Unit>>, <<20 * Unit, 5 * Unit>>,
      <<22 * Unit, 3 * Unit>>, <<2 * Unit, 4 * Unit>> }

\* Token geometry that exercises the body and overlay builders.
GeomInputs ==
    { Input([DefaultArgs EXCEPT !.token_width = w, !.token_height = h,
                                !.hole_radius = hp[1], !.hole_offset = hp[2],
                                !.qr_border = qb, !.end_index = e],
            g, {}) :
        w \in {50 * Unit, 50 * Unit + Half, 12 * Unit},
        h \in {60 * Unit, 20 * Unit},
        hp \in HoleParams,
        qb \in {3 * Unit, 3 * Unit + Half},
        e \in {1, 2},
        g \in {20 * Unit, 30 * Unit} }

\* Output directories in any earlier state, around a one-tag plate.
DirInputs ==
    { Input([DefaultArgs EXCEPT !.token_width = 253 * Unit,
                                !.token_height = 253 * Unit, !.end_index = e],
            20 * Unit, d) :
        e \in 0 .. 2, d \in SUBSET OldEntries }

Inputs == BatchRanges \cup GeomInputs \cup DirInputs

Init ==
    /\ \E x \in Inputs :
          /\ args = x.args
          /\ glyph_width = x.glyph_width
          /\ dir = x.dir
          /\ dir_before = x.dir
    /\ pc = "prepare"
    /\ err = "none"
    /\ i = 0
    /\ num_per_row = 0
    /\ num_per_column = 0
    /\ tokens_per_plate = 0
    /\ current_plate_index = 0
    /\ build_plate_body = {}
    /\ build_plate_colored = {}
    /\ body = NoSolid
    /\ colored = NoSolid
    /\ exported = << >>

---------------------------------------------------------------------------
(* Output directory and export *)

\* output_dir.glob("*"): every entry, hidden ones included
GlobAll(d) == d

GlobScadNothing(d) == {}

\* output_dir.glob("*.scad")
GlobScad(d) == { f \in d : f.ext = "scad" }

\* save_as_stl: the scene is written as <name>.scad and rendered to <name>.stl
WriteStl(d, base, n) ==
    { f \in d : ~(f.base = base /\ f.n = n /\ f.ext \in {"scad", "stl"}) }
        \cup { Entry(base, n, "scad", FALSE), Entry(base, n, "stl", FALSE) }

SaveCall(solid, base, n) == [file |-> base, n |-> n, solid |-> solid]

SavePlateColoredUnderNext(log, n, b, c) ==
    log \o << SaveCall(b, "build_plate_body", n),
              SaveCall(c, "build_plate_colored", n + 1) >>

\* the two save_as_stl calls of main.py:150-151 and 189-190
SavePlate(log, n, b, c) ==
    log \o << SaveCall(b, "build_plate_body", n),
              SaveCall(c, "build_plate_colored", n) >>

SavePlateDir(d, n) ==
    WriteStl(WriteStl(d, "build_plate_body", n), "build_plate_colored", n)

\* prepare_output_directory.  unlink() of a sub-directory raises; glob yields
\* the entries in no fixed order, so any of the plain files may be gone by then.
PrepareOutputDirectory ==
    /\ pc = "prepare"
    /\ IF \E f \in GlobAll(dir) : f.ext = "dir"
       THEN /\ \E gone \in SUBSET { f \in GlobAll(dir) : f.ext # "dir" } :
                  dir' = dir \ gone
            /\ pc' = "aborted"
            /\ err' = "IsADirectoryError"
       ELSE /\ dir' = dir \ GlobAll(dir)
            /\ pc' = "layout"
            /\ err' = err
    /\ UNCHANGED <<args, glyph_width, dir_before, i, num_per_row, num_per_column,
                   tokens_per_plate, current_plate_index, build_plate_body,
                   build_plate_colored, body, colored, exported>>

---------------------------------------------------------------------------
(* main() *)

\* main.py:140-146
Layout ==
    /\ pc = "layout"
    /\ num_per_row' = IntQuot(build_plate_width, args.token_width + build_plate_spacing)
    /\ num_per_column' = IntQuot(build_plate_height, args.token_height + build_plate_spacing)
    /\ tokens_per_plate' = num_per_row' * num_per_column'
    /\ current_plate_index' = 0
    /\ build_plate_body' = {}
    /\ build_plate_colored' = {}
    /\ i' = args.start_index
    /\ pc' = "loop"
    /\ UNCHANGED <<args, glyph_width, dir_before, dir, err, body, colored, exported>>

IsPlateStartNoOffset(k) == k % tokens_per_plate = 0

\* main.py:148
IsPlateStart(k) == (k - args.start_index) % tokens_per_plate = 0

\* main.py:148 with tokens_per_plate = 0: the modulo raises
ZeroCapacity ==
    /\ pc = "loop"
    /\ i <= args.end_index
    /\ tokens_per_plate = 0
    /\ pc' = "aborted"
    /\ err' = "ZeroDivisionError"
    /\ UNCHANGED <<args, glyph_width, dir_before, dir, i, num_per_row, num_per_column,
                   tokens_per_plate, current_plate_index, build_plate_body,
                   build_plate_colored, body, colored, exported>>

\* main.py:148-155: the tag opens a new plate
Rollover ==
    /\ pc = "loop"
    /\ i <= args.end_index
    /\ tokens_per_plate # 0
    /\ IsPlateStart(i)
    /\ IF current_plate_index > 0
       THEN /\ exported' = SavePlate(exported, current_plate_index,
                                     build_plate_body, build_plate_colored)
            /\ dir' = SavePlateDir(dir, current_plate_index)
       ELSE UNCHANGED <<exported, dir>>
    /\ build_plate_body' = {}
    /\ build_plate_colored' = {}
    /\ current_plate_index' = current_plate_index + 1
    /\ pc' = "compose"
    /\ UNCHANGED <<args, glyph_width, dir_before, err, i, num_per_row, num_per_column,
                   tokens_per_plate, body, colored>>

\* main.py:148: the tag goes on the open plate
SamePlate ==
    /\ pc = "loop"
    /\ i <= args.end_index
    /\ tokens_per_plate # 0
    /\ ~IsPlateStart(i)
    /\ pc' = "compose"
    /\ UNCHANGED <<args, glyph_width, dir_before, dir, err, i, num_per_row, num_per_column,
                   tokens_per_plate, current_plate_index, build_plate_body,
                   build_plate_colored, body, colored, exported>>

GridRowByColumns(position_index) == position_index \div num_per_column

\* main.py:164
GridRow(position_index) == position_index \div num_per_row

\* main.py:165
GridCol(position_index) == position_index % num_per_row

XOffsetNoSpacing(col) == col * args.token_width

\* main.py:166
XOffset(col) == col * (args.token_width + build_plate_spacing)

\* main.py:167
YOffset(row) == row * (args.token_height + build_plate_spacing)

Placed(tag, row, col, x, y) == [tag |-> tag, row |-> row, col |-> col, x |-> x, y |-> y]

\* main.py:157-186
ComposeTag ==
    /\ pc = "compose"
    /\ LET qr_model == qr_code_to_3d_model(
                           floor(args.token_width - (args.qr_border * 2)),
                           args.colored_print_depth)
           text_model == add_text(glyph_width, args.text_size, args.colored_print_depth)
           position_index == (i - args.start_index) % tokens_per_plate
           row == GridRow(position_index)
           col == GridCol(position_index)
           x_offset == XOffset(col)
           y_offset == YOffset(row)
       IN  /\ colored' = assemble_colored_components(
                             qr_model, text_model, args,
                             (args.token_width - args.hole_radius - args.text_border) \div 2)
           /\ body' = create_keychain_body(
                          args.token_width, args.token_height, args.token_depth - 1,
                          args.token_corner_radius, args.hole_radius, args.hole_offset)
           /\ build_plate_body' =
                  build_plate_body \cup {Placed(i, row, col, x_offset, y_offset)}
           /\ build_plate_colored' =
                  build_plate_colored \cup {Placed(i, row, col, x_offset, y_offset)}
    /\ i' = i + 1
    /\ pc' = "loop"
    /\ UNCHANGED <<args, glyph_width, dir_before, dir, err, num_per_row, num_per_column,
                   tokens_per_plate, current_plate_index, exported>>

ComposeFailSkipsTag ==
    /\ pc = "compose"
    /\ err' = "GeometryError"
    /\ i' = i + 1
    /\ pc' = "loop"
    /\ UNCHANGED <<args, glyph_width, dir_before, dir, num_per_row, num_per_column,
                   tokens_per_plate, current_plate_index, build_plate_body,
                   build_plate_colored, body, colored, exported>>

\* main.py:157-186: a builder or the kernel raises while tag i is composed;
\* main() has no handler, so the exception leaves the loop and main().
ComposeFail ==
    /\ pc = "compose"
    /\ err' = "GeometryError"
    /\ pc' = "aborted"
    /\ UNCHANGED <<args, glyph_width, dir_before, dir, i, num_per_row, num_per_column,
                   tokens_per_plate, current_plate_index, build_plate_body,
                   build_plate_colored, body, colored, exported>>

\* main.py:188-190: the range is exhausted
Finalize ==
    /\ pc = "loop"
    /\ i > args.end_index
    /\ IF current_plate_index > 0
       THEN /\ exported' = SavePlate(exported, current_plate_index,
                                     build_plate_body, build_plate_colored)
            /\ dir' = SavePlateDir(dir, current_plate_index)
       ELSE UNCHANGED <<exported, dir>>
    /\ pc' = "cleanup"
    /\ UNCHANGED <<args, glyph_width, dir_before, err, i, num_per_row, num_per_column,
                   tokens_per_plate, current_plate_index, build_plate_body,
                   build_plate_colored, body, colored>>

\* main.py:192-193
Cleanup ==
    /\ pc = "cleanup"
    /\ dir' = dir \ GlobScad(dir)
    /\ pc' = "done"
    /\ UNCHANGED <<args, glyph_width, dir_before, err, i, num_per_row, num_per_column,
                   tokens_per_plate, current_plate_index, build_plate_body,
                   build_plate_colored, body, colored, exported>>

Next ==
    \/ PrepareOutputDirectory
    \/ Layout
    \/ ZeroCapacity
    \/ Rollover
    \/ SamePlate
    \/ ComposeTag
    \/ ComposeFail
    \/ Finalize
    \/ Cleanup

Spec == Init /\ [][Next]_vars

---------------------------------------------------------------------------
(* Properties *)

NumTags == IF args.end_index < args.start_index
           THEN 0
           ELSE args.end_index - args.start_index + 1

CeilDiv(n, c) == (n + c - 1) \div c

TagsOf(solid) == { e.tag : e \in solid }

Completed == pc \in {"cleanup", "done"}

\* C1: with capacity C >= 1 and N tags, a completed run of the loop has exported
\* exactly ceil(N/C) plates; plate n holds exactly the tags at sequence
\* positions (n-1)*C .. min(n*C, N)-1, so C tags on every plate but the last
\* and N-(ceil(N/C)-1)*C on the last; an empty range exports nothing.
C1_PlateContents ==
    (Completed /\ tokens_per_plate >= 1) =>
        LET C == tokens_per_plate
            P == CeilDiv(NumTags, C)
            Expected(n) == { args.start_index + p :
                               p \in ((n - 1) * C) .. (Min(n * C, NumTags) - 1) }
        IN  /\ Len(exported) = 2 * P
            /\ NumTags = 0 => exported = << >>
            /\ \A n \in 1 .. P :
                  /\ exported[2 * n - 1].file = "build_plate_body"
                  /\ exported[2 * n].file = "build_plate_colored"
                  /\ TagsOf(exported[2 * n - 1].solid) = Expected(n)
                  /\ TagsOf(exported[2 * n].solid) = Expected(n)
                  /\ Cardinality(exported[2 * n - 1].solid) =
                        IF n < P THEN C ELSE NumTags - (P - 1) * C
                  /\ Cardinality(exported[2 * n].solid) =
                        IF n < P THEN C ELSE NumTags - (P - 1) * C

C1_Witness ==
    /\ pc = "done"
    /\ tokens_per_plate = 6
    /\ args.start_index = 1 /\ args.end_index = 13
    /\ Len(exported) = 6
    /\ Cardinality(exported[1].solid) = 6
    /\ Cardinality(exported[3].solid) = 6
    /\ Cardinality(exported[5].solid) = 1

\* C2: every step that exports appends exactly the body and the colored
\* artifact of the open plate, both under the same running counter n (the next
\* of 1, 2, ...), holding the accumulators as they are, and it closes the
\* plate: either the accumulators are reset and the counter moves on, or the
\* range has ended; earlier exports are never rewritten or repeated, a filled
\* accumulator is never reset without being exported, and a finished run has
\* exported plate_count pairs.
C2_ExportOnce ==
    [][ /\ Len(exported') >= Len(exported)
        /\ SubSeq(exported', 1, Len(exported)) = exported
        /\ exported' # exported =>
              LET n == Len(exported) \div 2 + 1
                  b == exported'[Len(exported) + 1]
                  c == exported'[Len(exported) + 2]
              IN  /\ Len(exported') = Len(exported) + 2
                  /\ n = current_plate_index
                  /\ b.file = "build_plate_body" /\ b.n = n
                  /\ c.file = "build_plate_colored" /\ c.n = n
                  /\ b.solid = build_plate_body
                  /\ c.solid = build_plate_colored
                  /\ \/ pc' = "cleanup"
                     \/ /\ build_plate_body' = {}
                        /\ build_plate_colored' = {}
                        /\ current_plate_index' = n + 1
        /\ (build_plate_body # {} /\ build_plate_body' = {}) => exported' # exported
        /\ (build_plate_colored # {} /\ build_plate_colored' = {}) => exported' # exported
        /\ pc' = "done" => Len(exported') = 2 * current_plate_index'
      ]_vars

C2_Witness ==
    /\ pc = "done"
    /\ Len(exported) = 6
    /\ exported[5].n = 3 /\ exported[6].n = 3
    /\ exported[6].file = "build_plate_colored"

Assignment(e, plate) ==
    [pos |-> e.tag - args.start_index, plate |-> plate, row |-> e.row, col |-> e.col]

\* The (plate_index, row, column) of every tag placed so far; the plate index
\* is the running counter less one.
Assignments ==
    { Assignment(e, current_plate_index - 1) : e \in build_plate_body }
        \cup UNION { { Assignment(e, exported[k].n - 1) : e \in exported[k].solid } :
                      k \in 1 .. Len(exported) }

\* C3: position -> (plate, row, column) follows plate = pos // capacity,
\* row = local // tokens_per_row, column = local % tokens_per_row, stays within
\* 0 <= row < tokens_per_column and 0 <= column < tokens_per_row, is invertible
\* (distinct positions get distinct triples), sends capacity-1 to the last
\* slot of plate 0 and capacity to slot (0,0) of plate 1.
C3_Bijection ==
    tokens_per_plate >= 1 =>
        /\ \A a \in Assignments :
              LET local == a.pos % tokens_per_plate
              IN  /\ a.plate = a.pos \div tokens_per_plate
                  /\ a.row = local \div num_per_row
                  /\ a.col = local % num_per_row
                  /\ 0 <= a.row /\ a.row < num_per_column
                  /\ 0 <= a.col /\ a.col < num_per_row
                  /\ a.pos = a.plate * tokens_per_plate + a.row * num_per_row + a.col
                  /\ a.pos = tokens_per_plate - 1 =>
                        /\ a.plate = 0
                        /\ a.row = num_per_column - 1
                        /\ a.col = num_per_row - 1
                  /\ a.pos = tokens_per_plate =>
                        a.plate = 1 /\ a.row = 0 /\ a.col = 0
        /\ \A a, b \in Assignments :
              a.pos # b.pos =>
                  <<a.plate, a.row, a.col>> # <<b.plate, b.row, b.col>>

C3_Witness ==
    /\ num_per_row = 3 /\ num_per_column = 2
    /\ \E a, b \in Assignments :
          /\ a.pos = tokens_per_plate - 1
          /\ b.pos = tokens_per_plate

ZeroCapacityConfig ==
    IntQuot(build_plate_width, args.token_width + build_plate_spacing)
        * IntQuot(build_plate_height, args.token_height + build_plate_spacing) = 0

\* C4: a configuration of capacity zero is rejected with InvalidConfiguration
\* before any other effect of the run, whatever the index range; the loop never
\* runs with capacity 0.
C4_Original ==
    ZeroCapacityConfig =>
        \/ pc = "prepare"
        \/ /\ err = "InvalidConfiguration"
           /\ dir = dir_before
           /\ exported = << >>
           /\ body = NoSolid /\ colored = NoSolid

\* C5: a body is returned only when hole_radius + hole_offset and the corner
\* radius are both strictly below min(width, height)/2; at or above that bound
\* the builder signals an error and returns no body.
C5_Original ==
    body # NoSolid =>
        /\ 2 * (body.hole_radius + body.hole_offset) < Min(body.width, body.height)
        /\ 2 * body.radius < Min(body.width, body.height)

AllSolids ==
    {build_plate_body, build_plate_colored}
        \cup { exported[k].solid : k \in 1 .. Len(exported) }

\* C6: once composing tag i has failed the run is over: the failure is not
\* skipped, no tag from i on is in any accumulator or export, and the plate
\* that tag i belongs to has neither its body nor its colored artifact exported.
C6_AbortOnFailure ==
    err = "GeometryError" =>
        /\ pc = "aborted"
        /\ \A k \in 1 .. Len(exported) : exported[k].n # current_plate_index
        /\ \A f \in dir : ~(f.old = FALSE /\ f.n = current_plate_index)
        /\ \A solid \in AllSolids : \A e \in solid : e.tag < i

C6_Witness ==
    /\ err = "GeometryError"
    /\ pc = "aborted"
    /\ Len(exported) > 0
    /\ build_plate_body # {}
    /\ i < args.end_index

RunArtifacts ==
    { Entry(base, n, "stl", FALSE) :
        base \in {"build_plate_body", "build_plate_colored"},
        n \in 1 .. current_plate_index }

\* C7: no entry that was in the output directory before the run is there once
\* a plate has been exported, and after the run the directory holds exactly
\* the body/colored mesh pair of each plate 1..plate_count: nothing older and
\* no .scad file.
C7_OutputDirectory ==
    /\ exported # << >> => \A f \in dir : ~f.old /\ f \notin dir_before
    /\ pc = "done" => dir = RunArtifacts

C7_Witness ==
    /\ pc = "done"
    /\ Cardinality(dir_before) = 3
    /\ Entry("build_plate_body", 1, "stl", TRUE) \in dir_before
    /\ current_plate_index = 2
    /\ Cardinality(dir) = 4

XMirrored(front, rear, width) ==
    /\ rear.x0 = width - front.x1
    /\ rear.x1 = width - front.x0

YSame(front, rear) == rear.y0 = front.y0 /\ rear.y1 = front.y1

ZFaces(front, rear) ==
    /\ rear.z0 = 0 /\ rear.z1 = args.colored_print_depth
    /\ front.z0 = args.token_depth - args.colored_print_depth
    /\ front.z1 = args.token_depth

\* C8 as stated: for the QR relief and for the text relief, the back copy's
\* X-extent is the image of the front copy's under x -> body_width - x, the
\* Y-extent is unchanged, the back copy lies at Z 0..overlay_depth and the
\* front copy at Z body_depth-overlay_depth..body_depth.
C8_Original ==
    colored # NoSolid =>
        /\ XMirrored(colored.front_qr, colored.back_qr, args.token_width)
        /\ XMirrored(colored.front_text, colored.back_text, args.token_width)
        /\ YSame(colored.front_qr, colored.back_qr)
        /\ YSame(colored.front_text, colored.back_text)
        /\ ZFaces(colored.front_qr, colored.back_qr)
        /\ ZFaces(colored.front_text, colored.back_text)

\* C8 amended: the QR relief is as stated; the back text relief is mirrored
\* about the text's own centre line x = text_x_offset, so it has the X-extent
\* of the front text relief, which is the image under x -> body_width - x only
\* when text_x_offset = body_width/2; Y and Z are as stated for both.
C8_Amended ==
    colored # NoSolid =>
        /\ XMirrored(colored.front_qr, colored.back_qr, args.token_width)
        /\ XMirrored(colored.front_text, colored.back_text, 2 * colored.text_offset)
        /\ colored.back_text.x0 = colored.front_text.x0
        /\ colored.back_text.x1 = colored.front_text.x1
        /\ XMirrored(colored.front_text, colored.back_text, args.token_width)
              <=> 2 * colored.text_offset = args.token_width
        /\ YSame(colored.front_qr, colored.back_qr)
        /\ YSame(colored.front_text, colored.back_text)
        /\ ZFaces(colored.front_qr, colored.back_qr)
        /\ ZFaces(colored.front_text, colored.back_text)

C8_Witness ==
    /\ colored # NoSolid
    /\ args.token_width = 50 * Unit + Half
    /\ glyph_width = 30 * Unit
    /\ colored.back_qr.x0 # colored.front_qr.x0
    /\ colored.back_text.x0 # args.token_width - colored.front_text.x1

\* C9: the hole cylinder is at least depth + 2 high, starts strictly below
\* z = 0 and ends strictly above z = depth, and its centre is
\* hole_offset + hole_radius away from the right edge and from the top edge.
C9_Original ==
    body # NoSolid =>
        LET hole == body.hole
            cx == (hole.x0 + hole.x1) \div 2
            cy == (hole.y0 + hole.y1) \div 2
        IN  /\ hole.z1 - hole.z0 >= body.depth + 2 * Unit
            /\ hole.z0 < 0
            /\ hole.z1 > body.depth
            /\ body.width - cx = body.hole_offset + body.hole_radius
            /\ body.height - cy = body.hole_offset + body.hole_radius

Abs(x) == IF x < 0 THEN -x ELSE x

\* C10: with capacity >= 1 every tag's cell lies on the build plate, and two
\* tags of the same plate differ in row or column and their cells are at least
\* build_plate_spacing apart in X or in Y.
C10_CellsOnPlate ==
    tokens_per_plate >= 1 =>
        \A solid \in AllSolids :
            /\ \A e \in solid :
                  /\ 0 <= e.x
                  /\ e.x + args.token_width <= build_plate_width
                  /\ 0 <= e.y
                  /\ e.y + args.token_height <= build_plate_height
            /\ \A e, f \in solid :
                  e.tag # f.tag =>
                      /\ e.row # f.row \/ e.col # f.col
                      /\ \/ Abs(e.x - f.x) - args.token_width >= build_plate_spacing
                         \/ Abs(e.y - f.y) - args.token_height >= build_plate_spacing

C10_Witness ==
    /\ args.token_width = 126 * Unit
    /\ \E e, f \in build_plate_body :
          /\ e.col = 1 /\ f.col = 0 /\ e.row = f.row
          /\ e.x + args.token_width = build_plate_width - build_plate_spacing
    /\ \E e, f \in build_plate_body : e.row # f.row

====
